---- MODULE Spec2Model ----
(***************************************************************************)
(* A model of the option pricing and calibration engine of                 *)
(* xverc/options-pricing-project: the Black-Scholes-Merton pricer and      *)
(* Greeks (src/src/models.py), the Newton-Raphson implied volatility       *)
(* solver, the CRR binomial lattice pricer and the calibration batch       *)
(* driver (src/src/run_analysis.py).                                       *)
(*                                                                         *)
(* Python floats are modelled as decimal floating-point numbers <<m, e>>   *)
(* of value m * 10^e with a mantissa of FloatDigits digits, rounded to     *)
(* nearest after every operation, flushed to zero below the smallest       *)
(* double, and with one non-finite value NaN standing for IEEE inf/nan.    *)
(***************************************************************************)
EXTENDS Integers, Sequences, FiniteSets

(***************************************************************************)
(* Floating point                                                          *)
(***************************************************************************)

\* Mantissa digits of the modelled float (a double carries 15-17).
FloatDigits == 4

\* 10^MinExp10 is below the smallest positive double (4.9e-324): results
\* smaller than that underflow to zero.
MinExp10 == -324

Abs(n) == IF n < 0 THEN -n ELSE n

Sgn(n) == IF n < 0 THEN -1 ELSE IF n > 0 THEN 1 ELSE 0

\* The powers of ten an integer of the model can hold.
PowersOf10 ==
  <<1, 10, 100, 1000, 10000, 100000, 1000000, 10000000, 100000000,
    1000000000>>

Pow10(n) == IF n <= 0 THEN 1 ELSE PowersOf10[n + 1]

\* The number of decimal digits of n >= 0.
NumDigits(n) ==
  IF n < 10000
    THEN (IF n < 100 THEN (IF n < 10 THEN 1 ELSE 2)
          ELSE (IF n < 1000 THEN 3 ELSE 4))
  ELSE IF n < 100000000
    THEN (IF n < 1000000 THEN (IF n < 100000 THEN 5 ELSE 6)
          ELSE (IF n < 10000000 THEN 7 ELSE 8))
  ELSE (IF n < 1000000000 THEN 9 ELSE 10)

Zero == <<0, 0>>

\* The non-finite results (IEEE inf and nan), which compare false with
\* everything and propagate through every operation.
NaN == <<0, 1>>

IsNaN(a) == a = NaN

\* s * q * 10^e for a mantissa q of FloatDigits digits: zero on underflow.
NormFlush(s, q, e) ==
  IF e + FloatDigits - 1 < MinExp10 THEN Zero ELSE <<s * q, e>>

\* A mantissa that rounding carried to 10^FloatDigits loses a digit.
NormCarry(s, q, e) ==
  IF q >= Pow10(FloatDigits) THEN NormFlush(s, q \div 10, e + 1)
  ELSE NormFlush(s, q, e)

\* s * a * 10^e, a > 0 having k digits more than FloatDigits (fewer when
\* k < 0): rounded half away from zero.
NormShift(s, a, k, e) ==
  IF k > 0 THEN NormCarry(s, (a + Pow10(k) \div 2) \div Pow10(k), e + k)
  ELSE NormFlush(s, a * Pow10(-k), e + k)

\* m * 10^e rounded to FloatDigits digits.
Norm(m, e) ==
  IF m = 0 THEN Zero
  ELSE NormShift(Sgn(m), Abs(m), NumDigits(Abs(m)) - FloatDigits, e)

\* The float of the decimal literal m * 10^e.
F(m, e) == Norm(m, e)

One == F(1, 0)

FNeg(a) == IF IsNaN(a) THEN NaN ELSE <<-a[1], a[2]>>

FAbs(a) == IF IsNaN(a) THEN NaN ELSE <<Abs(a[1]), a[2]>>

\* hi + lo for nonzero hi, lo with hi's exponent the larger: exact when
\* the exponents are close, hi when lo is below its last digit.
FAddAligned(hi, lo) ==
  IF hi[2] - lo[2] > FloatDigits + 1 THEN hi
  ELSE Norm(hi[1] * Pow10(hi[2] - lo[2]) + lo[1], lo[2])

FAdd(a, b) ==
  IF IsNaN(a) \/ IsNaN(b) THEN NaN
  ELSE IF a[1] = 0 THEN b
  ELSE IF b[1] = 0 THEN a
  ELSE IF a[2] >= b[2] THEN FAddAligned(a, b)
  ELSE FAddAligned(b, a)

FSub(a, b) == FAdd(a, FNeg(b))

FMul(a, b) ==
  IF IsNaN(a) \/ IsNaN(b) THEN NaN
  ELSE Norm(a[1] * b[1], a[2] + b[2])

\* A division by zero gives inf or nan (numpy warns and does not raise).
FDiv(a, b) ==
  IF IsNaN(a) \/ IsNaN(b) \/ b[1] = 0 THEN NaN
  ELSE IF a[1] = 0 THEN Zero
  ELSE Norm(Sgn(a[1]) * Sgn(b[1])
              * ((Abs(a[1]) * Pow10(FloatDigits + 1)) \div Abs(b[1])),
            a[2] - b[2] - FloatDigits - 1)

\* Comparisons; every comparison with NaN is false.
FLt(a, b) == ~IsNaN(a) /\ ~IsNaN(b) /\ FSub(a, b)[1] < 0

FLe(a, b) == ~IsNaN(a) /\ ~IsNaN(b) /\ FSub(a, b)[1] <= 0

FGt(a, b) == FLt(b, a)

FGe(a, b) == FLe(b, a)

FEq(a, b) == ~IsNaN(a) /\ ~IsNaN(b) /\ a = b

\* Python's max(a, b): b when b > a, otherwise a (so a nan first argument
\* is returned); np.maximum agrees on finite arguments and returns nan when
\* either is nan.
PyMax(a, b) == IF FGt(b, a) THEN b ELSE a

RECURSIVE ISqrtIter(_, _)
ISqrtIter(n, x) ==
  LET y == (x + n \div x) \div 2
  IN IF y >= x THEN x ELSE ISqrtIter(n, y)

\* The integer square root of n > 0.
ISqrt(n) == ISqrtIter(n, n)

\* np.sqrt: nan for a negative argument.
FSqrt(a) ==
  IF IsNaN(a) \/ a[1] < 0 THEN NaN
  ELSE IF a[1] = 0 THEN Zero
  ELSE IF (a[2] - FloatDigits) % 2 = 0
    THEN Norm(ISqrt(a[1] * Pow10(FloatDigits)), (a[2] - FloatDigits) \div 2)
  ELSE Norm(ISqrt(a[1] * Pow10(FloatDigits - 1)),
            (a[2] - FloatDigits + 1) \div 2)

RECURSIVE FPowInt(_, _)
\* a**n for an integer n >= 0.
FPowInt(a, n) == IF n <= 0 THEN One ELSE FMul(a, FPowInt(a, n - 1))

Ln10 == F(2302585, -6)

\* exp underflows to zero below about -745.13.
ExpUnderflow == 745

\* exp overflows to inf above about 709.78.
ExpOverflow == 709

\* Terms of the series used for exp and log.
SeriesTerms == 12

RECURSIVE ExpSeries(_, _, _, _)
\* sum of r^k / k! from the term `term` (the k-th) on.
ExpSeries(r, k, term, acc) ==
  IF k > SeriesTerms \/ term[1] = 0 THEN acc
  ELSE ExpSeries(r, k + 1, FDiv(FMul(term, r), F(k + 1, 0)),
                 FAdd(acc, term))

\* s * 10^n
ExpShift(s, n) == Norm(s[1], s[2] + n)

\* exp(r) * 10^n for the remainder r, which rounding may leave just
\* below zero.
ExpScaled(r, n) ==
  IF r[1] < 0 THEN Norm(1, n) ELSE ExpShift(ExpSeries(r, 0, One, Zero), n)

\* exp(x) with n = floor(x / ln 10).
ExpReduced(x, n) == ExpScaled(FSub(x, FMul(F(n, 0), Ln10)), n)

\* x in units of 10^-4, for |x| below the overflow and underflow limits.
ExpFixed(x) ==
  IF x[2] + 4 >= 0 THEN x[1] * Pow10(x[2] + 4)
  ELSE IF x[2] + 4 < -9 THEN (IF x[1] < 0 THEN -1 ELSE 0)
  ELSE x[1] \div Pow10(-(x[2] + 4))

\* np.exp(x) = 10^n * exp(r), x = n ln 10 + r, 0 <= r < ln 10.
FExp(x) ==
  IF IsNaN(x) THEN NaN
  ELSE IF x[1] = 0 THEN One
  ELSE IF FLt(x, F(-ExpUnderflow, 0)) THEN Zero
  ELSE IF FGt(x, F(ExpOverflow, 0)) THEN NaN
  ELSE ExpReduced(x, ExpFixed(x) \div 23026)

RECURSIVE AtanhSeries(_, _, _, _)
\* sum of t^(2k+1) / (2k+1).
AtanhSeries(t2, k, pw, acc) ==
  IF k > SeriesTerms \/ pw[1] = 0 THEN acc
  ELSE AtanhSeries(t2, k + 1, FMul(pw, t2),
                   FAdd(acc, FDiv(pw, F(2 * k + 1, 0))))

\* atanh(t)
Atanh(t) == AtanhSeries(FMul(t, t), 0, t, Zero)

\* ln(y * 10^n) for y in (0.316, 3.162]: ln y = 2 atanh((y - 1) / (y + 1)).
LnReduced(y, n) ==
  FAdd(FMul(F(2, 0), Atanh(FDiv(FSub(y, One), FAdd(y, One)))),
       FMul(F(n, 0), Ln10))

\* np.log(x): nan for x <= 0 (numpy warns and does not raise).
FLn(x) ==
  IF IsNaN(x) \/ x[1] <= 0 THEN NaN
  ELSE IF x[1] > 3162
    THEN LnReduced(<<x[1], -FloatDigits>>, x[2] + FloatDigits)
  ELSE LnReduced(<<x[1], 1 - FloatDigits>>, x[2] + FloatDigits - 1)

\* scipy.stats.norm.pdf
NormPdf(x) == FMul(F(3989423, -7), FExp(FNeg(FDiv(FMul(x, x), F(2, 0)))))

\* The polynomial of Abramowitz and Stegun 26.2.17.
NormPoly(t) ==
  FMul(t, FAdd(F(319381530, -9),
  FMul(t, FAdd(F(-356563782, -9),
  FMul(t, FAdd(F(1781477937, -9),
  FMul(t, FAdd(F(-1821255978, -9),
  FMul(t, F(1330274429, -9))))))))))

\* The upper tail 1 - cdf(z) for z >= 0.
NormTail(z) ==
  FMul(NormPdf(z), NormPoly(FDiv(One, FAdd(One, FMul(F(2316419, -7), z)))))

\* scipy.stats.norm.cdf
NormCdf(x) ==
  IF IsNaN(x) THEN NaN
  ELSE IF x[1] < 0 THEN NormTail(FNeg(x))
  ELSE FSub(One, NormTail(x))


(***************************************************************************)
(* Python values                                                           *)
(***************************************************************************)

\* An optional value: None is the empty sequence, a present x is <<x>>.
None == <<>>

Some(x) == <<x>>

\* The outcome of a call: a returned value or a raised exception.
Return(v) == [exc |-> "none", val |-> v]

Raise(e) == [exc |-> e, val |-> NaN]

(***************************************************************************)
(* models.py: the Black-Scholes-Merton pricer and Greeks                   *)
(***************************************************************************)

\* `if sigma <= 0: sigma = 1e-6`
sigma_floor(sigma) == IF FLe(sigma, Zero) THEN F(1, -6) ELSE sigma

\* d1 = (np.log(S / K) + (r + 0.5 * sigma**2) * T) / (sigma * np.sqrt(T))
bsm_d1(S, K, T, r, sigma) ==
  FDiv(FAdd(FLn(FDiv(S, K)),
            FMul(FAdd(r, FMul(F(5, -1), FMul(sigma, sigma))), T)),
       FMul(sigma, FSqrt(T)))

\* d2 = d1 - sigma * np.sqrt(T)
bsm_d2(d1, T, sigma) == FSub(d1, FMul(sigma, FSqrt(T)))

\* The closed form, given d1, d2 and exp(-r * T); ValueError for an
\* option type that is neither 'call' nor 'put'.
bsm_price_formula(S, K, disc, d1, d2, option_type) ==
  IF option_type = "call"
    THEN Return(FSub(FMul(S, NormCdf(d1)), FMul(FMul(K, disc), NormCdf(d2))))
  ELSE IF option_type = "put"
    THEN Return(FSub(FMul(FMul(K, disc), NormCdf(FNeg(d2))),
                     FMul(S, NormCdf(FNeg(d1)))))
  ELSE Raise("ValueError")

bsm_price_d1(S, K, T, r, sigma, d1, option_type) ==
  bsm_price_formula(S, K, FExp(FMul(FNeg(r), T)), d1, bsm_d2(d1, T, sigma),
                    option_type)

\* The lines after the floor of sigma.
bsm_price_at(S, K, T, r, sigma, option_type) ==
  bsm_price_d1(S, K, T, r, sigma, bsm_d1(S, K, T, r, sigma), option_type)

\* A pricer whose boundary rule returns S - K or K - S without the floor
\* at zero.
bsm_price_unfloored(S, K, T, r, sigma, option_type) ==
  IF FLe(T, Zero) /\ option_type = "call" THEN Return(FSub(S, K))
  ELSE IF FLe(T, Zero) /\ option_type = "put" THEN Return(FSub(K, S))
  ELSE bsm_price_at(S, K, T, r, sigma_floor(sigma), option_type)

bsm_price(S, K, T, r, sigma, option_type) ==
  IF FLe(T, Zero) /\ option_type = "call" THEN Return(PyMax(Zero, FSub(S, K)))
  ELSE IF FLe(T, Zero) /\ option_type = "put"
    THEN Return(PyMax(Zero, FSub(K, S)))
  ELSE bsm_price_at(S, K, T, r, sigma_floor(sigma), option_type)

\* greeks['gamma'] = pdf_d1 / (S * sigma * np.sqrt(T))
bsm_gamma(S, sigma, pdf_d1, sqrtT) == FDiv(pdf_d1, FMul(FMul(S, sigma), sqrtT))

\* greeks['vega'] = (S * pdf_d1 * np.sqrt(T)) * 0.01
bsm_vega(S, pdf_d1, sqrtT) == FMul(FMul(FMul(S, pdf_d1), sqrtT), F(1, -2))

\* -(S * pdf_d1 * sigma) / (2 * np.sqrt(T))
bsm_decay(S, sigma, pdf_d1, sqrtT) ==
  FDiv(FNeg(FMul(FMul(S, pdf_d1), sigma)), FMul(F(2, 0), sqrtT))

\* The Greeks, given d1, d2, pdf(d1), sqrt(T) and exp(-r * T); ValueError
\* for an option type that is neither 'call' nor 'put'.
bsm_greeks_formula(S, K, T, r, sigma, d1, d2, pdf_d1, sqrtT, disc, option_type) ==
  IF option_type = "call"
    THEN Return([delta |-> NormCdf(d1),
                 gamma |-> bsm_gamma(S, sigma, pdf_d1, sqrtT),
                 vega  |-> bsm_vega(S, pdf_d1, sqrtT),
                 theta |-> FDiv(FSub(bsm_decay(S, sigma, pdf_d1, sqrtT),
                                     FMul(FMul(FMul(r, K), disc),
                                          NormCdf(d2))),
                                F(36525, -2)),
                 rho   |-> FMul(FMul(FMul(FMul(K, T), disc), NormCdf(d2)),
                                F(1, -2))])
  ELSE IF option_type = "put"
    THEN Return([delta |-> FSub(NormCdf(d1), One),
                 gamma |-> bsm_gamma(S, sigma, pdf_d1, sqrtT),
                 vega  |-> bsm_vega(S, pdf_d1, sqrtT),
                 theta |-> FDiv(FAdd(bsm_decay(S, sigma, pdf_d1, sqrtT),
                                     FMul(FMul(FMul(r, K), disc),
                                          NormCdf(FNeg(d2)))),
                                F(36525, -2)),
                 rho   |-> FMul(FMul(FMul(FMul(FNeg(K), T), disc),
                                     NormCdf(FNeg(d2))),
                                F(1, -2))])
  ELSE Raise("ValueError")

bsm_greeks_d1(S, K, T, r, sigma, d1, option_type) ==
  bsm_greeks_formula(S, K, T, r, sigma, d1, bsm_d2(d1, T, sigma), NormPdf(d1),
                     FSqrt(T), FExp(FMul(FNeg(r), T)), option_type)

\* The lines after the floor of sigma.
bsm_greeks_at(S, K, T, r, sigma, option_type) ==
  bsm_greeks_d1(S, K, T, r, sigma, bsm_d1(S, K, T, r, sigma), option_type)

bsm_greeks(S, K, T, r, sigma, option_type) ==
  IF FLe(T, Zero)
    THEN Return([delta |-> Zero, gamma |-> Zero, vega |-> Zero,
                 theta |-> Zero, rho |-> Zero])
  ELSE bsm_greeks_at(S, K, T, r, sigma_floor(sigma), option_type)

(***************************************************************************)
(* models.py: the implied volatility solver                                *)
(***************************************************************************)

\* The seed `sigma = 0.5`.
sigma_seed == F(5, -1)

\* `if sigma < 1e-3: sigma = 1e-3  elif sigma > 5: sigma = 5`
clamp_sigma(sigma) ==
  IF FLt(sigma, F(1, -3)) THEN F(1, -3)
  ELSE IF FGt(sigma, F(5, 0)) THEN F(5, 0)
  ELSE sigma

\* The convergence test without abs().
converged_signed(price_diff, tolerance) == FLt(price_diff, tolerance)

\* `abs(price_diff) < tolerance`
converged(price_diff, tolerance) == FLt(FAbs(price_diff), tolerance)

\* The update with the division whatever vega is.
newton_update_unguarded(sigma, price_diff, vega) ==
  clamp_sigma(FSub(sigma, FDiv(price_diff, vega)))

\* What the update divides by: nothing when vega == 0, else vega.
newton_divisor(vega) == IF FEq(vega, Zero) THEN None ELSE Some(vega)

\* The update of one iteration that did not converge.
newton_update(sigma, price_diff, vega) ==
  IF FEq(vega, Zero) THEN FMul(sigma, F(99, -2))
  ELSE clamp_sigma(FSub(sigma, FDiv(price_diff, vega)))

\* An iteration that applies the update before it returns.
iv_decide_updated(a, sigma, price_guess, greeks) ==
  IF price_guess.exc # "none"
    THEN [kind |-> "raise", exc |-> price_guess.exc, sigma |-> sigma,
          divisor |-> None]
  ELSE IF converged(FSub(price_guess.val, a.market_price), a.tolerance)
    THEN [kind |-> "return", exc |-> "none",
          sigma |-> newton_update(sigma,
                                  FSub(price_guess.val, a.market_price),
                                  FDiv(greeks.val.vega, F(1, -2))),
          divisor |-> None]
  ELSE [kind |-> "continue", exc |-> "none",
        sigma |-> newton_update(sigma,
                                FSub(price_guess.val, a.market_price),
                                FDiv(greeks.val.vega, F(1, -2))),
        divisor |-> newton_divisor(FDiv(greeks.val.vega, F(1, -2)))]

\* The iteration after its two pricing calls: it raises what they raised,
\* returns sigma on convergence, or continues with the updated sigma.
iv_decide(a, sigma, price_guess, greeks) ==
  IF price_guess.exc # "none"
    THEN [kind |-> "raise", exc |-> price_guess.exc, sigma |-> sigma,
          divisor |-> None]
  ELSE IF greeks.exc # "none"
    THEN [kind |-> "raise", exc |-> greeks.exc, sigma |-> sigma,
          divisor |-> None]
  ELSE IF converged(FSub(price_guess.val, a.market_price), a.tolerance)
    THEN [kind |-> "return", exc |-> "none", sigma |-> sigma,
          divisor |-> None]
  ELSE [kind |-> "continue", exc |-> "none",
        sigma |-> newton_update(sigma,
                                FSub(price_guess.val, a.market_price),
                                FDiv(greeks.val.vega, F(1, -2))),
        divisor |-> newton_divisor(FDiv(greeks.val.vega, F(1, -2)))]

\* The body of `for i in range(max_iter)` at the current sigma.
iv_iteration(a, sigma) ==
  iv_decide(a, sigma,
            bsm_price(a.S, a.K, a.T, a.r, sigma, a.option_type),
            bsm_greeks(a.S, a.K, a.T, a.r, sigma, a.option_type))

\* The defaults `max_iter=100, tolerance=1e-6`.
default_max_iter == 100

default_tolerance == F(1, -6)

(***************************************************************************)
(* models.py: the CRR binomial lattice pricer                              *)
(***************************************************************************)

\* np.maximum(a, b): nan when either is nan.
np_maximum(a, b) ==
  IF IsNaN(a) \/ IsNaN(b) THEN NaN ELSE IF FGt(b, a) THEN b ELSE a

\* dt, u, d, p and discount; sigma enters as it was passed.
crr_params(T, r, sigma, N) ==
  LET dt == FDiv(T, F(N, 0))
      u  == FExp(FMul(sigma, FSqrt(dt)))
      d  == FDiv(One, u)
  IN [dt |-> dt, u |-> u, d |-> d,
      p |-> FDiv(FSub(FExp(FMul(r, dt)), d), FSub(u, d)),
      discount |-> FExp(FMul(FNeg(r), dt))]

\* S * (u**(n - i)) * (d**i): the stock price after n steps, i of them down.
crr_stock_price(S, par, n, i) ==
  FMul(FMul(S, FPowInt(par.u, n - i)), FPowInt(par.d, i))

\* The option values at expiration, node i (of 0..N) at index i + 1; zeros
\* for an option type that is neither 'call' nor 'put'.
crr_terminal_values(S, K, par, N, option_type) ==
  [j \in 1..(N + 1) |->
     LET price == crr_stock_price(S, par, N, j - 1)
     IN IF option_type = "call" THEN np_maximum(Zero, FSub(price, K))
        ELSE IF option_type = "put" THEN np_maximum(Zero, FSub(K, price))
        ELSE Zero]

\* A node that reads the values i + 1 and i + 2 of the layer after it.
crr_node_shifted(S, K, par, option_type, exercise_style, option_values, step, i) ==
  IF i + 3 \in DOMAIN option_values
    THEN Return(FMul(par.discount,
                     FAdd(FMul(par.p, option_values[i + 2]),
                          FMul(FSub(One, par.p), option_values[i + 3]))))
    ELSE Return(option_values[i + 2])

\* new_option_values[i] of the layer `step`, from the layer after it; an
\* American node of an unrecognized option type reads intrinsic_value
\* before it is bound.
crr_node(S, K, par, option_type, exercise_style, option_values, step, i) ==
  LET expected_value ==
        FMul(par.discount,
             FAdd(FMul(par.p, option_values[i + 1]),
                  FMul(FSub(One, par.p), option_values[i + 2])))
      current_stock_price == crr_stock_price(S, par, step, i)
  IN IF exercise_style = "european" THEN Return(expected_value)
     ELSE IF exercise_style = "american"
       THEN (IF option_type = "call"
               THEN Return(PyMax(expected_value,
                                 PyMax(Zero, FSub(current_stock_price, K))))
             ELSE IF option_type = "put"
               THEN Return(PyMax(expected_value,
                                 PyMax(Zero, FSub(K, current_stock_price))))
             ELSE Raise("UnboundLocalError"))
     ELSE Return(Zero)

\* One pass of the backward loop: the layer `step` (step + 1 values), or
\* the exception of its first node.
crr_layer(S, K, par, option_type, exercise_style, option_values, step) ==
  LET node(i) == crr_node(S, K, par, option_type, exercise_style,
                          option_values, step, i)
  IN IF node(0).exc # "none" THEN Raise(node(0).exc)
     ELSE Return([j \in 1..(step + 1) |-> node(j - 1).val])

RECURSIVE crr_induction(_, _, _, _, _, _, _, _),
          crr_induction_rest(_, _, _, _, _, _, _, _)
\* The passes of the backward loop for the layers step, step - 1, ...,
\* last: the layer `last`, or the exception of a node.
crr_induction(S, K, par, option_type, exercise_style, option_values, step, last) ==
  IF step < last THEN Return(option_values)
  ELSE crr_induction_rest(S, K, par, option_type, exercise_style,
                          crr_layer(S, K, par, option_type, exercise_style,
                                    option_values, step),
                          step, last)

crr_induction_rest(S, K, par, option_type, exercise_style, layer, step, last) ==
  IF layer.exc # "none" THEN layer
  ELSE crr_induction(S, K, par, option_type, exercise_style, layer.val,
                     step - 1, last)

\* The layer `last` of the lattice with the parameters par: the terminal
\* values, then the backward loop down to that layer.
crr_layer_at(S, K, par, N, option_type, exercise_style, last) ==
  crr_induction(S, K, par, option_type, exercise_style,
                crr_terminal_values(S, K, par, N, option_type), N - 1, last)

\* `return option_values[0]` after the whole loop.
crr_result(res) == IF res.exc # "none" THEN res ELSE Return(res.val[1])

\* crr_binomial_pricer(S, K, T, r, sigma, N, option_type, exercise_style)
crr_binomial_pricer(S, K, T, r, sigma, N, option_type, exercise_style) ==
  crr_result(crr_layer_at(S, K, crr_params(T, r, sigma, N), N, option_type,
                          exercise_style, 0))

(***************************************************************************)
(* The sigma a pricing operation evaluates its formulas with               *)
(***************************************************************************)

\* bsm_price returns the intrinsic value before any formula when T <= 0
\* and the type is recognized; otherwise d1 is computed with the floored
\* sigma.
price_formula_sigma(T, sigma, option_type) ==
  IF FLe(T, Zero) /\ option_type \in {"call", "put"} THEN None
  ELSE Some(sigma_floor(sigma))

\* bsm_greeks returns zeros before any formula when T <= 0.
greeks_formula_sigma(T, sigma) ==
  IF FLe(T, Zero) THEN None ELSE Some(sigma_floor(sigma))

\* crr_binomial_pricer computes u = exp(sigma * sqrt(dt)) with the sigma it
\* was passed.
crr_formula_sigma(sigma) == Some(sigma)

(***************************************************************************)
(* State                                                                   *)
(***************************************************************************)

VARIABLES
  p_call,         \* the last bsm_price or bsm_greeks call and its arguments
  p_ret,          \* its outcome
  formula_sigma,  \* the sigma the last pricing operation (bsm_price,
                  \* bsm_greeks, crr_binomial_pricer) evaluated its formulas
                  \* with; None when it evaluated none
  iv_args,        \* the arguments of the implied_volatility call in progress
  iv_pc,          \* "idle", "loop", "returned" or "raised"
  i,              \* the loop index
  sigma,          \* the solver's current sigma
  iv_trace,       \* the sigmas at which the solver has priced, in order
  iv_ret,         \* the solver's result: None or Some(sigma)
  iv_divisors,    \* for each iteration that did not converge, what its
                  \* update divided by: None or Some(vega)
  lat_args,       \* the arguments of the crr_binomial_pricer call in progress
  lat_pc,         \* "idle", "induction", "returned" or "raised"
  lat_par,        \* dt, u, d, p and discount
  step,           \* the layer the backward loop computes next
  option_values,  \* the current layer
  lat_ret,        \* the pricer's result
  options_df,     \* the rows calculate_and_cache_analytics loaded
  b_pc,           \* "idle", "loop", "returned" or "raised"
  idx,            \* the number of rows the loop has processed
  implied_vols,   \* the five result lists
  deltas,
  gammas,
  vegas,
  thetas,
  analytics_data, \* the rows of the table 'analytics_data'
  b_ret,          \* the value calculate_and_cache_analytics returned
  solved,         \* for each row processed, the solver call made for it
                  \* and what the call returned
  writes,         \* the number of times to_sql has replaced the table
  table_before    \* the table 'analytics_data' before the call

pricer_vars == <<p_call, p_ret>>

iv_vars == <<iv_args, iv_pc, i, sigma, iv_trace, iv_ret, iv_divisors>>

lat_vars == <<lat_args, lat_pc, lat_par, step, option_values, lat_ret>>

batch_vars ==
  <<options_df, b_pc, idx, implied_vols, deltas, gammas, vegas, thetas,
    analytics_data, b_ret, solved, writes, table_before>>

vars == <<pricer_vars, formula_sigma, iv_vars, lat_vars, batch_vars>>

NoArgs == [op |-> "none"]

PricerIdle ==
  /\ p_call = NoArgs
  /\ p_ret = Return(Zero)

IVIdle ==
  /\ iv_args = NoArgs
  /\ iv_pc = "idle"
  /\ i = 0
  /\ sigma = sigma_seed
  /\ iv_trace = <<>>
  /\ iv_ret = None
  /\ iv_divisors = <<>>

LatticeIdle ==
  /\ lat_args = NoArgs
  /\ lat_pc = "idle"
  /\ lat_par = NoArgs
  /\ step = 0
  /\ option_values = <<>>
  /\ lat_ret = Zero

BatchIdle ==
  /\ options_df = <<>>
  /\ b_pc = "idle"
  /\ idx = 0
  /\ implied_vols = <<>>
  /\ deltas = <<>>
  /\ gammas = <<>>
  /\ vegas = <<>>
  /\ thetas = <<>>
  /\ analytics_data = <<>>
  /\ b_ret = None
  /\ solved = <<>>
  /\ writes = 0
  /\ table_before = <<>>

\* No call has been made.
Init ==
  /\ PricerIdle
  /\ formula_sigma = None
  /\ IVIdle
  /\ LatticeIdle
  /\ BatchIdle

(***************************************************************************)
(* Inputs                                                                  *)
(***************************************************************************)

OptionTypes == {"call", "put", "straddle"}

ExerciseStyles == {"european", "american", "bermudan"}

(***************************************************************************)
(* bsm_price and bsm_greeks called with arbitrary arguments                *)
(***************************************************************************)

PricerArgs ==
  [S : {F(80, 0), F(100, 0), F(120, 0)}, K : {F(100, 0), F(110, 0)},
   T : {F(-1, 0), Zero, F(25, -2), One}, r : {F(-2, -2), Zero, F(5, -2)},
   sigma : {F(-2, -1), Zero, F(2, -1), F(5, -1)}, option_type : OptionTypes]

\* The client calls bsm_price.
PriceCall ==
  /\ p_call = NoArgs
  /\ \E a \in PricerArgs :
       /\ p_call' = [op |-> "bsm_price", args |-> a]
       /\ p_ret' = bsm_price(a.S, a.K, a.T, a.r, a.sigma, a.option_type)
       /\ formula_sigma' = price_formula_sigma(a.T, a.sigma, a.option_type)
  /\ UNCHANGED <<iv_vars, lat_vars, batch_vars>>

\* The client calls bsm_greeks.
GreeksCall ==
  /\ p_call = NoArgs
  /\ \E a \in PricerArgs :
       /\ p_call' = [op |-> "bsm_greeks", args |-> a]
       /\ p_ret' = bsm_greeks(a.S, a.K, a.T, a.r, a.sigma, a.option_type)
       /\ formula_sigma' = greeks_formula_sigma(a.T, a.sigma)
  /\ UNCHANGED <<iv_vars, lat_vars, batch_vars>>

PricerNext == PriceCall \/ GreeksCall

SpecPricer == Init /\ [][PricerNext]_vars

(***************************************************************************)
(* implied_volatility, one loop iteration per step                         *)
(***************************************************************************)

\* The largest iteration budget given to a solver call.
MaxIter == 6

IVArgs ==
  [market_price : {F(-1, 0), Zero, F(1037, -2), F(2177, -2), F(1, 6)},
   S : {F(100, 0)}, K : {F(100, 0), F(200, 0)}, T : {F(-1, 0), Zero, One},
   r : {F(5, -2)}, option_type : OptionTypes, max_iter : 0..MaxIter,
   tolerance : {default_tolerance, F(5, -2)}]

\* implied_volatility(...) is called: `sigma = 0.5`.
IVStart(a) ==
  /\ iv_args' = a
  /\ iv_pc' = "loop"
  /\ i' = 0
  /\ sigma' = sigma_seed
  /\ iv_trace' = <<>>
  /\ iv_ret' = None
  /\ iv_divisors' = <<>>

IVCall ==
  /\ iv_pc = "idle"
  /\ \E a \in IVArgs : IVStart(a)
  /\ UNCHANGED <<pricer_vars, formula_sigma, lat_vars, batch_vars>>

\* One iteration of the loop.
IVIterate ==
  /\ iv_pc = "loop"
  /\ i < iv_args.max_iter
  /\ \E it \in {iv_iteration(iv_args, sigma)} :
        /\ iv_trace' = Append(iv_trace, sigma)
        /\ IF it.kind = "raise"
             THEN /\ iv_pc' = "raised"
                  /\ UNCHANGED <<i, sigma, iv_ret, iv_divisors>>
           ELSE IF it.kind = "return"
             THEN /\ iv_pc' = "returned"
                  /\ iv_ret' = Some(it.sigma)
                  /\ UNCHANGED <<i, sigma, iv_divisors>>
           ELSE /\ sigma' = it.sigma
                /\ i' = i + 1
                /\ iv_divisors' = Append(iv_divisors, it.divisor)
                /\ UNCHANGED <<iv_pc, iv_ret>>
  /\ UNCHANGED <<iv_args, pricer_vars, formula_sigma, lat_vars, batch_vars>>

\* The loop is exhausted: `return None`.
IVExhaust ==
  /\ iv_pc = "loop"
  /\ i >= iv_args.max_iter
  /\ iv_pc' = "returned"
  /\ iv_ret' = None
  /\ UNCHANGED <<iv_args, i, sigma, iv_trace, iv_divisors>>
  /\ UNCHANGED <<pricer_vars, formula_sigma, lat_vars, batch_vars>>

IVNext == IVCall \/ IVIterate \/ IVExhaust

SpecIV == Init /\ [][IVNext]_vars

(***************************************************************************)
(* crr_binomial_pricer, one layer of the backward loop per step            *)
(***************************************************************************)

\* The largest number of steps N of a lattice.
MaxSteps == 3

LatticeArgs ==
  [S : {F(100, 0)}, K : {F(100, 0), F(110, 0)}, T : {F(5, -1), One},
   r : {Zero, F(5, -2), F(5, -1)},
   sigma : {F(-2, -1), Zero, F(1, -1), F(2, -1)},
   N : 1..MaxSteps, option_type : OptionTypes,
   exercise_style : ExerciseStyles]

\* crr_binomial_pricer(...) is called: the parameters, the stock prices
\* at expiry and the option values at expiration.
LatticeCall ==
  /\ lat_pc = "idle"
  /\ \E a \in LatticeArgs :
       \E par \in {crr_params(a.T, a.r, a.sigma, a.N)} :
         /\ lat_args' = a
         /\ lat_par' = par
         /\ formula_sigma' = crr_formula_sigma(a.sigma)
         /\ option_values' =
              crr_terminal_values(a.S, a.K, par, a.N, a.option_type)
         /\ step' = a.N - 1
  /\ lat_pc' = "induction"
  /\ UNCHANGED <<lat_ret, pricer_vars, iv_vars, batch_vars>>

\* One pass of `for step in range(N - 1, -1, -1)`.
LatticeStep ==
  /\ lat_pc = "induction"
  /\ step >= 0
  /\ \E layer \in {crr_layer(lat_args.S, lat_args.K, lat_par,
                             lat_args.option_type, lat_args.exercise_style,
                             option_values, step)} :
       IF layer.exc # "none"
         THEN /\ lat_pc' = "raised"
              /\ UNCHANGED <<option_values, step>>
       ELSE /\ option_values' = layer.val
            /\ step' = step - 1
            /\ UNCHANGED lat_pc
  /\ UNCHANGED <<lat_args, lat_par, lat_ret, formula_sigma>>
  /\ UNCHANGED <<pricer_vars, iv_vars, batch_vars>>

\* `return option_values[0]`
LatticeReturn ==
  /\ lat_pc = "induction"
  /\ step < 0
  /\ lat_pc' = "returned"
  /\ lat_ret' = option_values[1]
  /\ UNCHANGED <<lat_args, lat_par, step, option_values, formula_sigma>>
  /\ UNCHANGED <<pricer_vars, iv_vars, batch_vars>>

LatticeNext == LatticeCall \/ LatticeStep \/ LatticeReturn

SpecLattice == Init /\ [][LatticeNext]_vars

(***************************************************************************)
(* calculate_and_cache_analytics (run_analysis.py) and the table it saves  *)
(***************************************************************************)

\* `iv is not None and iv > 0`
iv_usable(iv) == iv # None /\ FGt(iv[1], Zero)

\* list.append placed at the head of the list.
list_prepend(l, x) == <<x>> \o l

\* list.append
list_append(l, x) == Append(l, x)

\* The arguments of m.implied_volatility(market_price=row['market_price'],
\* S=row['S'], ..., option_type=row['type']): max_iter and tolerance take
\* their defaults.
batch_iv_args(row) ==
  [market_price |-> row.market_price, S |-> row.S, K |-> row.K,
   T |-> row.T, r |-> row.r, option_type |-> row.type,
   max_iter |-> default_max_iter, tolerance |-> default_tolerance]

\* The Greeks of a row at the seed sigma whatever the solver returned.
batch_greeks_seed(row, iv) ==
  bsm_greeks(row.S, row.K, row.T, row.r, sigma_seed, row.type)

\* m.bsm_greeks(S=row['S'], ..., sigma=iv, option_type=row['type'])
batch_greeks(row, iv) ==
  bsm_greeks(row.S, row.K, row.T, row.r, iv, row.type)

\* options_df with the columns calc_iv, delta, gamma, vega and theta.
with_columns(df, ivs, ds, gs, vs, ths) ==
  [j \in 1..Len(df) |->
     [row |-> df[j], calc_iv |-> ivs[j], delta |-> ds[j], gamma |-> gs[j],
      vega |-> vs[j], theta |-> ths[j]]]

\* df.to_sql(table_name, if_exists='replace') inside save_to_db: the new
\* table, or the old one when to_sql raised and the error was printed.
save_to_db(df, table, ok) == IF df = <<>> \/ ~ok THEN table ELSE df

\* pd.read_sql(query) inside load_from_db: the table, or an empty
\* DataFrame when the read raised and the error was printed.
load_from_db(table, ok) == IF ok THEN table ELSE <<>>

MaxRows == 2

\* The rows of curated_options: a call that re-prices at the seed, a call
\* that converges after several updates, an expired put quoted at its
\* intrinsic value, a call quoted below zero, and a row whose type is
\* neither 'call' nor 'put'.
CuratedRows ==
  { [market_price |-> F(2177, -2), S |-> F(100, 0), K |-> F(100, 0),
     T |-> One, r |-> F(5, -2), type |-> "call"],
    [market_price |-> F(1037, -2), S |-> F(100, 0), K |-> F(100, 0),
     T |-> One, r |-> F(5, -2), type |-> "call"],
    [market_price |-> F(20, 0), S |-> F(80, 0), K |-> F(100, 0),
     T |-> Zero, r |-> F(5, -2), type |-> "put"],
    [market_price |-> F(-1, 0), S |-> F(100, 0), K |-> F(100, 0),
     T |-> One, r |-> F(5, -2), type |-> "call"],
    [market_price |-> F(1037, -2), S |-> F(100, 0), K |-> F(100, 0),
     T |-> One, r |-> F(5, -2), type |-> "straddle"] }

DataFrames == UNION {[1..n -> CuratedRows] : n \in 0..MaxRows}

\* The table an earlier run of a batch whose only option had no implied
\* volatility has saved.
EarlierTable ==
  <<[row |-> [market_price |-> F(-1, 0), S |-> F(100, 0), K |-> F(100, 0),
              T |-> One, r |-> F(5, -2), type |-> "call"],
     calc_iv |-> None, delta |-> None, gamma |-> None, vega |-> None,
     theta |-> None]>>

\* Line 74 of an earlier run: 'analytics_data' exists before the call.
EarlierRun ==
  /\ b_pc = "idle"
  /\ analytics_data = <<>>
  /\ analytics_data' = EarlierTable
  /\ UNCHANGED <<options_df, b_pc, idx, implied_vols, deltas, gammas, vegas,
                 thetas, b_ret, solved, writes, table_before>>
  /\ UNCHANGED <<pricer_vars, formula_sigma, iv_vars, lat_vars>>

\* A load that starts the loop whatever it has read.
BatchLoadUnguarded ==
  /\ b_pc = "idle"
  /\ \E table \in DataFrames, ok \in BOOLEAN :
       options_df' = load_from_db(table, ok)
  /\ b_pc' = "loop"
  /\ table_before' = analytics_data
  /\ UNCHANGED <<idx, implied_vols, deltas, gammas, vegas, thetas,
                 analytics_data, b_ret, solved, writes>>
  /\ UNCHANGED <<pricer_vars, formula_sigma, iv_vars, lat_vars>>

\* Lines 17-29: load the table; return nothing when it is empty, else
\* start the loop with five empty lists.
BatchLoad ==
  /\ b_pc = "idle"
  /\ \E table \in DataFrames, ok \in BOOLEAN :
       /\ options_df' = load_from_db(table, ok)
       /\ b_pc' = IF load_from_db(table, ok) = <<>> THEN "returned"
                  ELSE "loop"
  /\ table_before' = analytics_data
  /\ UNCHANGED <<idx, implied_vols, deltas, gammas, vegas, thetas,
                 analytics_data, b_ret, solved, writes>>
  /\ UNCHANGED <<pricer_vars, formula_sigma, iv_vars, lat_vars>>

\* Lines 35-42: the loop calls the solver for the next row.
BatchSolve ==
  /\ b_pc = "loop"
  /\ idx < Len(options_df)
  /\ iv_pc = "idle"
  /\ IVStart(batch_iv_args(options_df[idx + 1]))
  /\ UNCHANGED <<pricer_vars, formula_sigma, lat_vars, batch_vars>>

\* Lines 44-64 for a row whose solver call returned iv.
BatchAppend(row, iv) ==
  IF iv_usable(iv)
    THEN \E greeks \in {batch_greeks(row, iv[1])} :
           /\ implied_vols' = list_append(implied_vols, iv)
           /\ IF greeks.exc # "none"
                THEN /\ b_pc' = "raised"
                     /\ UNCHANGED <<idx, deltas, gammas, vegas, thetas>>
                ELSE /\ deltas' = list_append(deltas, Some(greeks.val.delta))
                     /\ gammas' = list_append(gammas, Some(greeks.val.gamma))
                     /\ vegas' = list_append(vegas, Some(greeks.val.vega))
                     /\ thetas' = list_append(thetas, Some(greeks.val.theta))
                     /\ idx' = idx + 1
                     /\ UNCHANGED b_pc
    ELSE /\ implied_vols' = list_append(implied_vols, None)
         /\ deltas' = list_append(deltas, None)
         /\ gammas' = list_append(gammas, None)
         /\ vegas' = list_append(vegas, None)
         /\ thetas' = list_append(thetas, None)
         /\ idx' = idx + 1
         /\ UNCHANGED b_pc

\* The solver's frame is gone once its caller has its result.
IVReset ==
  /\ iv_args' = NoArgs
  /\ iv_pc' = "idle"
  /\ i' = 0
  /\ sigma' = sigma_seed
  /\ iv_trace' = <<>>
  /\ iv_ret' = None
  /\ iv_divisors' = <<>>

\* A loop that saves the rows it has so far after every row.
BatchRowPersisting ==
  /\ b_pc = "loop"
  /\ iv_pc \in {"returned", "raised"}
  /\ IF iv_pc = "raised"
       THEN /\ b_pc' = "raised"
            /\ UNCHANGED <<idx, implied_vols, deltas, gammas, vegas, thetas,
                           solved, iv_vars, analytics_data, writes>>
       ELSE /\ BatchAppend(options_df[idx + 1], iv_ret)
            /\ solved' = Append(solved, [args |-> iv_args, ret |-> iv_ret])
            /\ IVReset
            /\ analytics_data' =
                 with_columns(SubSeq(options_df, 1, idx + 1), implied_vols',
                              deltas', gammas', vegas', thetas')
            /\ writes' = writes + 1
  /\ UNCHANGED <<options_df, b_ret, table_before>>
  /\ UNCHANGED <<pricer_vars, formula_sigma, lat_vars>>

\* Lines 44-64: the solver call of the row has ended.  Its exception
\* leaves the function; its result is appended to the lists.
BatchRow ==
  /\ b_pc = "loop"
  /\ iv_pc \in {"returned", "raised"}
  /\ IF iv_pc = "raised"
       THEN /\ b_pc' = "raised"
            /\ UNCHANGED <<idx, implied_vols, deltas, gammas, vegas, thetas,
                           solved, iv_vars>>
       ELSE /\ BatchAppend(options_df[idx + 1], iv_ret)
            /\ solved' = Append(solved, [args |-> iv_args, ret |-> iv_ret])
            /\ IVReset
  /\ UNCHANGED <<options_df, analytics_data, b_ret, writes, table_before>>
  /\ UNCHANGED <<pricer_vars, formula_sigma, lat_vars>>

\* Lines 68-77: add the five columns, save the table, return it.
BatchSave ==
  /\ b_pc = "loop"
  /\ idx = Len(options_df)
  /\ \E ok \in BOOLEAN :
       /\ analytics_data' =
            save_to_db(with_columns(options_df, implied_vols, deltas, gammas,
                                    vegas, thetas),
                       analytics_data, ok)
       /\ writes' = IF ok THEN writes + 1 ELSE writes
  /\ b_ret' = Some(with_columns(options_df, implied_vols, deltas, gammas,
                                vegas, thetas))
  /\ b_pc' = "returned"
  /\ UNCHANGED <<options_df, idx, implied_vols, deltas, gammas, vegas,
                 thetas, solved, table_before>>
  /\ UNCHANGED <<pricer_vars, formula_sigma, iv_vars, lat_vars>>

BatchNext ==
  EarlierRun \/ BatchLoad \/ BatchSolve \/ IVIterate \/ IVExhaust \/ BatchRow \/ BatchSave

SpecBatch == Init /\ [][BatchNext]_vars

(***************************************************************************)
(* Properties                                                              *)
(***************************************************************************)

ValidTypes == {"call", "put"}

\* |price(S, K, T, r, s) - marketPrice| < tolerance
Reprices(a, s) ==
  FLt(FAbs(FSub(bsm_price(a.S, a.K, a.T, a.r, s, a.option_type).val,
                a.market_price)),
      a.tolerance)

\* A market price no sigma reaches: negative, or far above the spot and
\* the strike together.
Unreachable(a) ==
  \/ FLt(a.market_price, F(-5, -1))
  \/ FGt(a.market_price, FMul(F(10, 0), FAdd(a.S, a.K)))

IVRunning == iv_pc # "idle" /\ iv_args.option_type \in ValidTypes

\* C1: a solver call with a recognized option type and an unreachable
\* market price never raises, prices at most max_iter times, and when it
\* has returned it has priced exactly max_iter times and returned None; a
\* call still in its loop has used at most max_iter iterations.
ClaimC1 ==
  (IVRunning /\ Unreachable(iv_args)) =>
     /\ iv_pc # "raised"
     /\ Len(iv_trace) <= iv_args.max_iter
     /\ iv_pc = "loop" => (Len(iv_trace) = i /\ i <= iv_args.max_iter)
     /\ iv_pc = "returned" =>
          (iv_ret = None /\ Len(iv_trace) = iv_args.max_iter)

\* An unreachable market price after a budget of at least three
\* iterations at T > 0: three pricings, then None.
WitnessC1 ==
  /\ IVRunning /\ Unreachable(iv_args)
  /\ FGt(iv_args.T, Zero)
  /\ iv_args.max_iter >= 3
  /\ iv_pc = "returned"
  /\ iv_ret = None
  /\ Len(iv_trace) = iv_args.max_iter

\* C2: the solver returns a sigma exactly when the sigma of some iteration
\* k < max_iter re-prices to within tolerance of the market price, at the
\* first such iteration and without a further update: the returned sigma
\* is the last sigma priced and the solver's current sigma, it re-prices
\* within tolerance, no sigma priced before it does, and None is returned
\* only after max_iter sigmas none of which does.
ClaimC2 ==
  IVRunning =>
     /\ \A k \in 1..(Len(iv_trace) - 1) : ~Reprices(iv_args, iv_trace[k])
     /\ iv_pc = "loop" =>
          \A k \in 1..Len(iv_trace) : ~Reprices(iv_args, iv_trace[k])
     /\ (iv_pc = "returned" /\ iv_ret # None) =>
          /\ Len(iv_trace) \in 1..iv_args.max_iter
          /\ iv_ret = Some(iv_trace[Len(iv_trace)])
          /\ iv_ret = Some(sigma)
          /\ Reprices(iv_args, iv_ret[1])
     /\ (iv_pc = "returned" /\ iv_ret = None) =>
          /\ Len(iv_trace) = iv_args.max_iter
          /\ \A k \in 1..Len(iv_trace) : ~Reprices(iv_args, iv_trace[k])

\* A sigma returned by the fourth iteration or a later one, at T > 0.
WitnessC2 ==
  /\ IVRunning
  /\ iv_pc = "returned"
  /\ iv_ret # None
  /\ Len(iv_trace) >= 4
  /\ iv_ret[1] # sigma_seed
  /\ Reprices(iv_args, iv_ret[1])

InClampRange(s) == FGe(s, F(1, -3)) /\ FLe(s, F(5, 0))

\* C9: every sigma the solver prices at after the seed, and every sigma it
\* returns, lies in [1e-3, 5].
ClaimC9 ==
  IVRunning =>
     /\ \A k \in 2..Len(iv_trace) : InClampRange(iv_trace[k])
     /\ (iv_pc = "returned" /\ iv_ret # None) => InClampRange(iv_ret[1])

PricerCalled == p_call # NoArgs

\* C6: bsm_price and bsm_greeks raise ValueError for every option type
\* that is neither 'call' nor 'put', whatever the other arguments.
ClaimC6 ==
  (PricerCalled /\ p_call.args.option_type \notin ValidTypes) =>
     p_ret.exc = "ValueError"

\* C7: no pricing operation evaluates its formulas with a sigma <= 0, and
\* the lattice's risk-neutral probability is not a division by u - d = 0.
ClaimC7 ==
  /\ formula_sigma # None => FGt(formula_sigma[1], Zero)
  /\ lat_pc # "idle" => ~FEq(lat_par.u, lat_par.d)

\* max(0, S - K) for a call and max(0, K - S) for a put.
IntrinsicValue(S, K, option_type) ==
  IF option_type = "call" THEN (IF FGt(S, K) THEN FSub(S, K) ELSE Zero)
  ELSE (IF FGt(K, S) THEN FSub(K, S) ELSE Zero)

\* C10: for T <= 0 and a recognized option type bsm_price returns exactly
\* the intrinsic value, which depends on neither r nor sigma.
ClaimC10 ==
  (/\ PricerCalled
   /\ p_call.op = "bsm_price"
   /\ p_call.args.option_type \in ValidTypes
   /\ FLe(p_call.args.T, Zero)) =>
     /\ p_ret.exc = "none"
     /\ p_ret.val = IntrinsicValue(p_call.args.S, p_call.args.K,
                                   p_call.args.option_type)

\* An in-the-money put priced after expiry with a negative sigma.
WitnessC10 ==
  /\ PricerCalled
  /\ p_call.op = "bsm_price"
  /\ p_call.args.option_type = "put"
  /\ FLt(p_call.args.T, Zero)
  /\ FLt(p_call.args.sigma, Zero)
  /\ p_call.args.r # Zero
  /\ p_ret = Return(F(30, 0))

\* The layer of the European lattice with the arguments of the call in
\* progress that corresponds to the current layer.
EuropeanLayer ==
  crr_layer_at(lat_args.S, lat_args.K, lat_par, lat_args.N,
               lat_args.option_type, "european", step + 1).val

\* C8: for S, K, T, sigma > 0, any r and N >= 1, every node value of every
\* layer of the American lattice is >= the European value of that node,
\* and so is the returned price.
ClaimC8 ==
  (/\ lat_pc \in {"induction", "returned"}
   /\ lat_args.exercise_style = "american"
   /\ lat_args.option_type \in ValidTypes
   /\ FGt(lat_args.sigma, Zero)) =>
     /\ \A j \in 1..Len(option_values) :
          FGe(option_values[j], EuropeanLayer[j])
     /\ lat_pc = "returned" => FGe(lat_ret, EuropeanLayer[1])

BatchLists == <<implied_vols, deltas, gammas, vegas, thetas>>

\* The solver call made for the row.
SolverCallOf(row) ==
  [market_price |-> row.market_price, S |-> row.S, K |-> row.K,
   T |-> row.T, r |-> row.r, option_type |-> row.type,
   max_iter |-> 100, tolerance |-> F(1, -6)]

\* Entry j of the five lists belongs to the row: the solver was called
\* with the row's fields, the implied vol is what that call returned, and
\* a Greek that is present is the row's Greek at that implied vol.
EntryOfRow(row, call, iv, delta, gamma, vega, theta) ==
  /\ call.args = SolverCallOf(row)
  /\ iv \in {None, call.ret}
  /\ delta # None =>
       delta[1] = bsm_greeks(row.S, row.K, row.T, row.r, iv[1],
                             row.type).val.delta
  /\ gamma # None =>
       gamma[1] = bsm_greeks(row.S, row.K, row.T, row.r, iv[1],
                             row.type).val.gamma
  /\ vega # None =>
       vega[1] = bsm_greeks(row.S, row.K, row.T, row.r, iv[1],
                            row.type).val.vega
  /\ theta # None =>
       theta[1] = bsm_greeks(row.S, row.K, row.T, row.r, iv[1],
                             row.type).val.theta

\* Row j of the returned table is input row j with entry j of each list.
OutputOfRow(out, row, iv, delta, gamma, vega, theta) ==
  /\ out.row = row
  /\ out.calc_iv = iv
  /\ out.delta = delta
  /\ out.gamma = gamma
  /\ out.vega = vega
  /\ out.theta = theta

\* C3: after the loop has processed k records each of the five result
\* lists has length exactly k, entry j of each was computed from input
\* record j, and the returned table has one row per input record, row j
\* being input record j with entry j of each list.
ClaimC3 ==
  /\ idx <= Len(options_df)
  /\ \A l \in 1..5 : Len(BatchLists[l]) = idx
  /\ Len(solved) = idx
  /\ \A j \in 1..idx :
       EntryOfRow(options_df[j], solved[j], implied_vols[j], deltas[j],
                  gammas[j], vegas[j], thetas[j])
  /\ b_ret # None =>
       /\ Len(b_ret[1]) = Len(options_df)
       /\ idx = Len(options_df)
       /\ \A j \in 1..idx :
            OutputOfRow(b_ret[1][j], options_df[j], implied_vols[j],
                        deltas[j], gammas[j], vegas[j], thetas[j])

\* Two different records processed and returned, the first without an
\* implied vol and the second with one.
WitnessC3 ==
  /\ b_pc = "returned"
  /\ b_ret # None
  /\ Len(options_df) = 2
  /\ idx = 2
  /\ options_df[1] # options_df[2]
  /\ implied_vols[1] = None
  /\ implied_vols[2] # None
  /\ deltas[2] # None

\* The solver returned a volatility > 0.
ReturnedVol(ret) == ret # None /\ FGt(ret[1], Zero)

\* The Greeks of a record are those of the Greeks calculator at sigma.
GreeksAt(row, s, delta, gamma, vega, theta) ==
  /\ delta = Some(bsm_greeks(row.S, row.K, row.T, row.r, s,
                             row.type).val.delta)
  /\ gamma = Some(bsm_greeks(row.S, row.K, row.T, row.r, s,
                             row.type).val.gamma)
  /\ vega = Some(bsm_greeks(row.S, row.K, row.T, row.r, s,
                            row.type).val.vega)
  /\ theta = Some(bsm_greeks(row.S, row.K, row.T, row.r, s,
                             row.type).val.theta)

\* All present at the solver's volatility, or all absent.
TogetherOrAbsent(row, ret, iv, delta, gamma, vega, theta) ==
  IF ReturnedVol(ret)
    THEN /\ iv = ret
         /\ GreeksAt(row, ret[1], delta, gamma, vega, theta)
    ELSE /\ iv = None
         /\ delta = None /\ gamma = None /\ vega = None /\ theta = None

\* C4: for every record processed, the implied vol and the stored Greeks
\* are all present exactly when the solver returned a volatility > 0 for
\* the record, the Greeks being those at exactly that volatility, and are
\* all absent otherwise; the same holds for the rows of the returned and
\* of the saved table.
ClaimC4 ==
  /\ \A j \in 1..Len(implied_vols) :
       /\ j <= idx
       /\ TogetherOrAbsent(options_df[j], solved[j].ret, implied_vols[j],
                           deltas[j], gammas[j], vegas[j], thetas[j])
  /\ b_ret # None =>
       \A j \in 1..Len(b_ret[1]) :
          TogetherOrAbsent(options_df[j], solved[j].ret,
                           b_ret[1][j].calc_iv, b_ret[1][j].delta,
                           b_ret[1][j].gamma, b_ret[1][j].vega,
                           b_ret[1][j].theta)
  /\ \A j \in 1..Len(analytics_data) :
       (analytics_data[j].calc_iv = None) =
          (/\ analytics_data[j].delta = None
           /\ analytics_data[j].gamma = None
           /\ analytics_data[j].vega = None
           /\ analytics_data[j].theta = None)

\* A record whose solver call converged after several updates, with its
\* Greeks, next to a record whose call returned None, with none, both in
\* the saved table.
WitnessC4 ==
  /\ Len(analytics_data) = 2
  /\ \E j, k \in 1..2 :
       /\ analytics_data[j].calc_iv \notin {None, Some(sigma_seed)}
       /\ analytics_data[j].vega \notin {None, Some(Zero)}
       /\ solved[k].ret = None
       /\ solved[k].args.T = One
       /\ analytics_data[k].calc_iv = None
       /\ analytics_data[k].vega = None

\* C5: an exception raised for one record never leaves the batch driver.
ClaimC5 == b_pc # "raised"

\* The call was given no curated records: the table is empty or its read
\* failed.
EmptyInput == b_pc # "idle" /\ options_df = <<>>

\* C11: given empty input the batch call does not fail and returns an
\* empty result set, a collection of zero records, not a missing value.
ClaimC11 ==
  EmptyInput => (b_pc = "returned" /\ b_ret # None /\ Len(b_ret[1]) = 0)

\* C11, as the code has it: given empty input the batch call does not
\* fail and returns no value (None) instead of an empty result set; it
\* processes no record, writes nothing and leaves the stored table as it
\* was.
AmendedC11 ==
  EmptyInput =>
     /\ b_pc = "returned"
     /\ b_ret = None
     /\ idx = 0
     /\ \A l \in 1..5 : BatchLists[l] = <<>>
     /\ writes = 0
     /\ analytics_data = table_before

\* An empty input met while an earlier table is stored.
WitnessC11 ==
  /\ EmptyInput
  /\ b_pc = "returned"
  /\ b_ret = None
  /\ analytics_data = EarlierTable

\* C12: the analytics table is written at most once per batch call, only
\* by the step that ends the call after the last record has been
\* processed, and then with one row per input record; while the loop runs
\* and when the call stops part-way the table is the one stored before
\* the call.
ClaimC12 ==
  /\ writes \in {0, 1}
  /\ writes = 1 =>
       /\ b_pc = "returned"
       /\ idx = Len(options_df)
       /\ Len(options_df) >= 1
       /\ Len(analytics_data) = Len(options_df)
       /\ b_ret = Some(analytics_data)
  /\ (writes = 0 /\ b_pc # "idle") => analytics_data = table_before
  /\ b_pc \in {"loop", "raised"} => writes = 0

\* A batch that stopped at its second record with the first one computed,
\* the earlier table still stored.
WitnessC12 ==
  /\ b_pc = "raised"
  /\ idx = 1
  /\ implied_vols[1] # None
  /\ table_before = EarlierTable
  /\ analytics_data = EarlierTable
  /\ writes = 0

\* vega = greeks['vega'] / 0.01 at the sigma s.
VegaAt(a, s) ==
  FDiv(bsm_greeks(a.S, a.K, a.T, a.r, s, a.option_type).val.vega, F(1, -2))

\* price - marketPrice at the sigma s.
DiffAt(a, s) ==
  FSub(bsm_price(a.S, a.K, a.T, a.r, s, a.option_type).val, a.market_price)

\* x brought into [1e-3, 5].
Clamped(x) ==
  IF FLt(x, F(1, -3)) THEN F(1, -3) ELSE IF FGt(x, F(5, 0)) THEN F(5, 0) ELSE x

\* The sigma the solver had after its k-th iteration that did not converge.
SigmaAfter(k) == IF k < Len(iv_trace) THEN iv_trace[k + 1] ELSE sigma

\* The one update the claim allows for an iteration at s with vega v and
\* price difference diff: next is the sigma after it, divisor what it
\* divided by.
OneUpdate(s, v, diff, next, divisor) ==
  IF FEq(v, Zero)
    THEN next = FMul(s, F(99, -2)) /\ divisor = None
    ELSE next = Clamped(FSub(s, FDiv(diff, v))) /\ divisor = Some(v)

RECURSIVE Decayed(_)
\* 0.5 multiplied k times by 0.99.
Decayed(k) == IF k = 0 THEN F(5, -1) ELSE FMul(Decayed(k - 1), F(99, -2))

\* C13: every iteration that did not converge counts against max_iter and
\* applied exactly one update: sigma * 0.99 without a division when
\* vega == 0, else sigma - diff / vega followed by the clamp.  For T <= 0
\* no update divides, and sigma after k such iterations is 0.5 * 0.99^k.
ClaimC13 ==
  IVRunning =>
     /\ i <= iv_args.max_iter
     /\ i <= Len(iv_trace)
     /\ Len(iv_divisors) = i
     /\ \A k \in 1..i :
          OneUpdate(iv_trace[k], VegaAt(iv_args, iv_trace[k]),
                    DiffAt(iv_args, iv_trace[k]), SigmaAfter(k),
                    iv_divisors[k])
     /\ FLe(iv_args.T, Zero) =>
          /\ \A k \in 1..i : iv_divisors[k] = None
          /\ \A k \in 0..i : SigmaAfter(k) = Decayed(k)
          /\ ~IsNaN(sigma)

\* A call at T > 0 whose updates were Newton steps first and a decay by
\* 0.99 after the clamp.
WitnessC13 ==
  /\ IVRunning
  /\ FGt(iv_args.T, Zero)
  /\ i >= 4
  /\ iv_divisors[1] # None
  /\ iv_divisors[i] = None
  /\ sigma = FMul(iv_trace[i], F(99, -2))

\* discount * (p * a + (1 - p) * b)
Expectation(a, b) ==
  FMul(lat_par.discount,
       FAdd(FMul(lat_par.p, a), FMul(FSub(One, lat_par.p), b)))

\* The payoff at the node of layer s with n down moves.
Payoff(s, n) ==
  IF lat_args.option_type = "call"
    THEN PyMax(Zero, FSub(FMul(FMul(lat_args.S, FPowInt(lat_par.u, s - n)),
                               FPowInt(lat_par.d, n)), lat_args.K))
    ELSE PyMax(Zero, FSub(lat_args.K,
                          FMul(FMul(lat_args.S, FPowInt(lat_par.u, s - n)),
                               FPowInt(lat_par.d, n))))

\* Value n (of 0..s) of the layer s, from the values a and b the layer
\* s + 1 has at n and n + 1.
ValueFrom(a, b, s, n) ==
  IF lat_args.exercise_style = "european" THEN Expectation(a, b)
  ELSE IF lat_args.exercise_style = "american"
    THEN PyMax(Expectation(a, b), Payoff(s, n))
  ELSE Zero

\* The call starts with the N + 1 terminal values and the step N - 1.
StartsAtLastStep ==
  (lat_pc = "idle" /\ lat_pc' = "induction") =>
     /\ lat_args'.N >= 1
     /\ step' = lat_args'.N - 1
     /\ DOMAIN option_values' = 1..(lat_args'.N + 1)

\* A pass for step s >= 0 replaces the s + 2 values of the layer s + 1 by
\* the s + 1 values of the layer s, value i from the values i and i + 1,
\* and goes on to s - 1.
ReplacesLayer ==
  (lat_pc = "induction" /\ lat_pc' = "induction" /\ step' # step) =>
     /\ step >= 0
     /\ step' = step - 1
     /\ DOMAIN option_values = 1..(step + 2)
     /\ DOMAIN option_values' = 1..(step + 1)
     /\ \A j \in 1..(step + 1) :
          option_values'[j] =
             ValueFrom(option_values[j], option_values[j + 1], step, j - 1)
     /\ lat_par' = lat_par /\ lat_args' = lat_args

\* The call returns after the pass for step 0, and what it returns is the
\* one value of the layer 0.
ReturnsLastValue ==
  (lat_pc = "induction" /\ lat_pc' = "returned") =>
     /\ step = -1
     /\ DOMAIN option_values = {1}
     /\ lat_ret' = option_values[1]

\* C14: backward induction visits the steps N - 1, N - 2, ..., 0 in that
\* order; the layer of step s holds exactly s + 1 values, value i of it
\* computed from the values i and i + 1 of the layer before it, which it
\* replaces; the returned price is the single value of the layer 0.
ClaimC14 ==
  [][StartsAtLastStep /\ ReplacesLayer /\ ReturnsLastValue]_vars

\* An American put priced over three steps, returned with a value above
\* zero.
WitnessC14 ==
  /\ lat_pc = "returned"
  /\ lat_args.N = 3
  /\ lat_args.exercise_style = "american"
  /\ lat_args.option_type = "put"
  /\ step = -1
  /\ Len(option_values) = 1
  /\ FGt(lat_ret, Zero)
  /\ lat_ret = option_values[1]

LatticeCalled == lat_pc # "idle"

UnknownStyle == lat_args.exercise_style \notin {"european", "american"}

UnknownTypeEuropean ==
  /\ lat_args.option_type \notin ValidTypes
  /\ lat_args.exercise_style = "european"

\* C15: the lattice pricer does not reject unrecognized enumerations: for
\* an exercise style that is neither 'european' nor 'american', and for
\* an option type that is neither 'call' nor 'put' with European
\* exercise, it never raises and what it returns is 0, whatever the other
\* arguments; the only call that raises is the American one of an
\* unrecognized option type, and not with a ValueError.
ClaimC15 ==
  LatticeCalled =>
     /\ (UnknownStyle \/ UnknownTypeEuropean) =>
          /\ lat_pc # "raised"
          /\ lat_pc = "returned" => lat_ret = Zero
     /\ lat_pc = "raised" =>
          /\ lat_args.exercise_style = "american"
          /\ lat_args.option_type \notin ValidTypes
          /\ crr_layer(lat_args.S, lat_args.K, lat_par,
                       lat_args.option_type, lat_args.exercise_style,
                       option_values, step).exc # "ValueError"
====
